---- MODULE Spec2Model ----
(***************************************************************************)
(* Model of the congreso_votos scripts:                                    *)
(*   analyze_voting.py  - read_voting_data (the bracketed-line parser and  *)
(*                        its vote classifier) and main (parse, summary,   *)
(*                        charts, CSV);                                    *)
(*   congreso_test.py   - the extraction script (analyze_file + the        *)
(*                        module-level try/except that writes              *)
(*                        resultado_votes.txt);                            *)
(*   summarize_pdf.py   - the interactive PDF summariser.                  *)
(*                                                                         *)
(* A Python str is modelled as a sequence of one-character strings, so     *)
(* that strip, upper, split and join are computed character by character.  *)
(***************************************************************************)
EXTENDS Integers, Sequences, FiniteSets, TLC

VARIABLES script, pc, keyState, fileExists, pageInput,
          line, nread, data, report, requests, written, csv,
          token, variant, catToken, catVariant

vars == <<script, pc, keyState, fileExists, pageInput,
          line, nread, data, report, requests, written, csv,
          token, variant, catToken, catVariant>>

progVars == <<script, pc, keyState, fileExists, pageInput,
              line, nread, data, report, requests, written, csv>>

classifyVars == <<token, variant, catToken, catVariant>>

(***************************************************************************)
(* Bounds of the model.                                                    *)
(***************************************************************************)
MaxLines == 2      \* lines in the input file
MaxParts == 4      \* comma-separated tokens in one generated line
MaxPad   == 1      \* whitespace characters added at each end of a token

(***************************************************************************)
(* Python str primitives.                                                  *)
(***************************************************************************)
Whitespace == {" ", "\t", "\n"}

LowerLetters == <<"a", "b", "c", "e", "i", "l", "n", "o", "p", "s", "t", "u", "ó">>
UpperLetters == <<"A", "B", "C", "E", "I", "L", "N", "O", "P", "S", "T", "U", "Ó">>

UpperChar(c) ==
    IF \E i \in 1..Len(LowerLetters) : LowerLetters[i] = c
    THEN UpperLetters[CHOOSE i \in 1..Len(LowerLetters) : LowerLetters[i] = c]
    ELSE c

LowerChar(c) ==
    IF \E i \in 1..Len(UpperLetters) : UpperLetters[i] = c
    THEN LowerLetters[CHOOSE i \in 1..Len(UpperLetters) : UpperLetters[i] = c]
    ELSE c

upper(s) == [i \in 1..Len(s) |-> UpperChar(s[i])]

lower(s) == [i \in 1..Len(s) |-> LowerChar(s[i])]

RECURSIVE lstrip(_)
lstrip(s) == IF s # <<>> /\ Head(s) \in Whitespace THEN lstrip(Tail(s)) ELSE s

RECURSIVE rstrip(_)
rstrip(s) ==
    IF s # <<>> /\ s[Len(s)] \in Whitespace THEN rstrip(SubSeq(s, 1, Len(s) - 1)) ELSE s

strip(s) == rstrip(lstrip(s))

\* s.split(sep) for a one-character separator: always at least one piece.
RECURSIVE split(_, _)
split(s, sep) ==
    IF \E i \in 1..Len(s) : s[i] = sep
    THEN LET i == CHOOSE k \in 1..Len(s) : s[k] = sep /\ \A j \in 1..(k - 1) : s[j] # sep
         IN  <<SubSeq(s, 1, i - 1)>> \o split(SubSeq(s, i + 1, Len(s)), sep)
    ELSE <<s>>

\* sep.join(parts)
RECURSIVE join(_, _)
join(parts, sep) ==
    IF parts = <<>> THEN <<>>
    ELSE IF Len(parts) = 1 THEN parts[1]
    ELSE parts[1] \o sep \o join(Tail(parts), sep)

startswith(s, c) == s # <<>> /\ s[1] = c

endswith(s, c) == s # <<>> /\ s[Len(s)] = c

(***************************************************************************)
(* categorize_result: the vote classifier.                                 *)
(***************************************************************************)
yes    == <<"y", "e", "s">>
no     == <<"n", "o">>
abs    == <<"a", "b", "s">>
others == <<"o", "t", "h", "e", "r", "s">>

SI         == <<"S", "I">>
SI_PLUS    == <<"S", "I", " ", "+", "+", "+">>
NO         == <<"N", "O">>
NO_MINUS   == <<"N", "O", " ", "-", "-", "-">>
ABST       == <<"A", "B", "S", "T">>
ABSTENCION == <<"A", "B", "S", "T", "E", "N", "C", "I", "Ó", "N">>

categorize_result_raw(result) ==
    LET r == strip(result)
    IN  IF r \in {SI, SI_PLUS} THEN yes
        ELSE IF r \in {NO, NO_MINUS} THEN no
        ELSE IF r \in {ABST, ABSTENCION} THEN abs
        ELSE r

categorize_result_prefix(result) ==
    LET r == upper(strip(result))
    IN  IF Len(r) >= 2 /\ SubSeq(r, 1, 2) = SI THEN yes
        ELSE IF Len(r) >= 2 /\ SubSeq(r, 1, 2) = NO THEN no
        ELSE IF Len(r) >= 4 /\ SubSeq(r, 1, 4) = ABST THEN abs
        ELSE others

categorize_result_nostrip(result) ==
    LET r == upper(result)
    IN  IF r \in {SI, SI_PLUS} THEN yes
        ELSE IF r \in {NO, NO_MINUS} THEN no
        ELSE IF r \in {ABST, ABSTENCION} THEN abs
        ELSE others

categorize_result(result) ==
    LET r == upper(strip(result))
    IN  IF r \in {SI, SI_PLUS} THEN yes
        ELSE IF r \in {NO, NO_MINUS} THEN no
        ELSE IF r \in {ABST, ABSTENCION} THEN abs
        ELSE others

(***************************************************************************)
(* read_voting_data: one iteration of the loop over the file's lines.      *)
(***************************************************************************)
Bracketed_open(s) == startswith(s, "[")

\* line and line.startswith('[') and line.endswith(']')
Bracketed(s) == s # <<>> /\ startswith(s, "[") /\ endswith(s, "]")

\* line[1:-1]
Content(s) == SubSeq(s, 2, Len(s) - 1)

\* [part.strip() for part in content.split(',')]
Parts(content) ==
    LET raw == split(content, ",") IN [i \in 1..Len(raw) |-> strip(raw[i])]

EnoughParts_two(parts) == Len(parts) >= 2

\* len(parts) >= 3
EnoughParts(parts) == Len(parts) >= 3

NameOf_tail(parts) == join(SubSeq(parts, 2, Len(parts)), <<",", " ">>)

\* ', '.join(parts[1:-1])
NameOf(parts) == join(SubSeq(parts, 2, Len(parts) - 1), <<",", " ">>)

NoRecord == [raised |-> FALSE, recs |-> <<>>]

IndexError == [raised |-> TRUE, recs |-> <<>>]

\* The same loop body with the filter written as line[0] == '[' and
\* line[-1] == ']', which indexes into the empty line.
ProcessLine_index(l) ==
    LET s == strip(l)
    IN  IF s = <<>> THEN IndexError
        ELSE IF s[1] = "[" /\ s[Len(s)] = "]"
        THEN LET parts == Parts(Content(s))
             IN  IF EnoughParts(parts)
                 THEN [raised |-> FALSE,
                       recs   |-> << [team   |-> parts[1],
                                      name   |-> NameOf(parts),
                                      result |-> categorize_result(parts[Len(parts)])] >>]
                 ELSE NoRecord
        ELSE NoRecord

\* The body of `for line in file:`; parts[0] and parts[-1] raise IndexError
\* on an empty list.
ProcessLine(l) ==
    LET s == strip(l)
    IN  IF Bracketed(s)
        THEN LET parts == Parts(Content(s))
             IN  IF EnoughParts(parts)
                 THEN IF Len(parts) = 0
                      THEN IndexError
                      ELSE [raised |-> FALSE,
                            recs   |-> << [team   |-> parts[1],
                                           name   |-> NameOf(parts),
                                           result |-> categorize_result(parts[Len(parts)])] >>]
                 ELSE NoRecord
        ELSE NoRecord

(***************************************************************************)
(* The input lines the model draws from.                                   *)
(***************************************************************************)
FirstTokens  == { <<>>, <<" ", "N", "A">> }

MiddleTokens == { <<" ">>, <<"7", " ">> }

LastTokens   == { <<"S", "I", " ", "+", "+", "+">>, <<" ", "n", "o">>,
                  <<"a", "b", "s", "t">>, <<"L", "P">>, <<>> }

\* k middle tokens: one token drawn from MiddleTokens, or several fixed ones.
ExtraMiddle == <<"7", " ">>

MiddleSeqs(k) ==
    IF k = 0 THEN { <<>> }
    ELSE IF k = 1 THEN { <<m>> : m \in MiddleTokens }
    ELSE { [i \in 1..k |-> ExtraMiddle] }

Contents(n) ==
    IF n = 1 THEN LastTokens
    ELSE { join(<<g>> \o ms \o <<v>>, <<",">>) :
             g \in FirstTokens, ms \in MiddleSeqs(n - 2), v \in LastTokens }

AllContents == UNION { Contents(n) : n \in 1..MaxParts }

\* Lines G, N, SI +++, used padded and with a bracket missing.
Samples == { join(<<g, m, <<"S", "I", " ", "+", "+", "+">> >>, <<",">>) :
               g \in FirstTokens, m \in MiddleTokens }

LinePool ==
    { <<"[">> \o c \o <<"]">> : c \in AllContents }
      \cup { <<" ", "[">> \o c \o <<"]", "\n">> : c \in Samples }
      \cup Samples
      \cup { <<"[">> \o c : c \in Samples }
      \cup { c \o <<"]">> : c \in Samples }
      \cup { <<>>, <<"\n">> }

NoLine == <<"<", "n", "o", "n", "e", ">">>

Unclassified == <<"?">>

(***************************************************************************)
(* df.to_csv("voting_analysis.csv", index=False): the header line and one  *)
(* line per record, written by csv.writer with QUOTE_MINIMAL (a field is   *)
(* quoted when it holds the delimiter, the quote character or a line       *)
(* break; a quote inside a quoted field is doubled).                       *)
(***************************************************************************)
Columns == << <<"t", "e", "a", "m">>, <<"n", "a", "m", "e">>,
              <<"r", "e", "s", "u", "l", "t">> >>

NeedsQuote(f) == \E i \in 1..Len(f) : f[i] \in {",", "\"", "\n", "\r"}

RECURSIVE DoubleQuotes(_)
DoubleQuotes(f) ==
    IF f = <<>> THEN <<>>
    ELSE IF Head(f) = "\"" THEN <<"\"", "\"">> \o DoubleQuotes(Tail(f))
    ELSE <<Head(f)>> \o DoubleQuotes(Tail(f))

CsvField_plain(f) == f

CsvField(f) ==
    IF NeedsQuote(f) THEN <<"\"">> \o DoubleQuotes(f) \o <<"\"">> ELSE f

CsvRow(r) == join(<<CsvField(r.team), CsvField(r.name), CsvField(r.result)>>, <<",">>)

to_csv(df) ==
    <<join(Columns, <<",">>)>> \o [i \in 1..Len(df) |-> CsvRow(df[i])]

(***************************************************************************)
(* State of the three scripts.                                             *)
(*   script      which program runs                                        *)
(*   pc          its position                                              *)
(*   keyState    ANTHROPIC_API_KEY in the environment: unset, empty, set   *)
(*   fileExists  whether the input file exists                             *)
(*   pageInput   the page number typed at the summariser's prompt          *)
(*   line        the line bound by `for line in file` in this iteration    *)
(*   nread       lines read so far                                         *)
(*   data        the list of records read_voting_data builds               *)
(*   report      what the run printed last: none, nodata, notfound,        *)
(*               processing, error, saved, printed, crash                  *)
(*   requests    requests sent to the LLM API                              *)
(*   written     names of the files written                                *)
(*   csv         the lines of voting_analysis.csv                          *)
(***************************************************************************)
Scripts == {"analyze", "extract", "summarize"}

KeyMissing_unsetonly(k) == k = "unset"

\* `if not api_key`: None and the empty string are both falsy.
KeyMissing(k) == k \in {"unset", "empty"}

UsesKey(s) == s \in {"extract", "summarize"}

OutputFile(s) ==
    IF s = "analyze" THEN "voting_analysis.csv"
    ELSE IF s = "extract" THEN "resultado_votes.txt"
    ELSE "<no output file>"

Init ==
    /\ script \in Scripts
    /\ pc = "start"
    /\ keyState \in (IF UsesKey(script) THEN {"unset", "empty", "set"} ELSE {"unset"})
    /\ fileExists \in BOOLEAN
    /\ pageInput \in (IF script = "summarize" THEN {"empty", "number", "garbage"}
                                              ELSE {"empty"})
    /\ line = NoLine
    /\ nread = 0
    /\ data = <<>>
    /\ report = "none"
    /\ requests = 0
    /\ written = {}
    /\ csv = <<>>
    /\ token = NoLine /\ variant = NoLine
    /\ catToken = Unclassified /\ catVariant = Unclassified

(***************************************************************************)
(* analyze_voting.py: main and read_voting_data.                           *)
(***************************************************************************)
\* open(filename) inside read_voting_data; FileNotFoundError is caught by main.
OpenVotes ==
    /\ script = "analyze" /\ pc = "start"
    /\ IF fileExists
       THEN /\ pc' = "read"
            /\ UNCHANGED report
       ELSE /\ pc' = "done"
            /\ report' = "notfound"
    /\ UNCHANGED <<script, keyState, fileExists, pageInput, line, nread, data,
                   requests, written, csv, classifyVars>>

append_front(d, recs) == recs \o d

\* data.append({...}): the record of this line, if any, goes to the end.
append(d, recs) == d \o recs

\* One iteration of `for line in file`.  An exception would leave
\* read_voting_data and reach main's `except Exception`.
ReadLine ==
    /\ script = "analyze" /\ pc = "read"
    /\ nread < MaxLines
    /\ \E l \in LinePool :
         LET out == ProcessLine(l)
         IN  /\ line' = l
             /\ nread' = nread + 1
             /\ IF out.raised
                THEN /\ pc' = "done"
                     /\ report' = "processing"
                     /\ UNCHANGED data
                ELSE /\ data' = append(data, out.recs)
                     /\ UNCHANGED <<pc, report>>
    /\ UNCHANGED <<script, keyState, fileExists, pageInput, requests, written, csv,
                   classifyVars>>

\* End of file: read_voting_data returns pd.DataFrame(data); its locals go
\* out of scope.
EndOfFile ==
    /\ script = "analyze" /\ pc = "read"
    /\ pc' = "parsed"
    /\ line' = NoLine
    /\ UNCHANGED <<script, keyState, fileExists, pageInput, nread, data, report,
                   requests, written, csv, classifyVars>>

\* The empty check with the `return` left out.
CheckEmpty_noreturn ==
    /\ script = "analyze" /\ pc = "parsed"
    /\ pc' = "summary"
    /\ report' = (IF data = <<>> THEN "nodata" ELSE report)
    /\ UNCHANGED <<script, keyState, fileExists, pageInput, line, nread, data,
                   requests, written, csv, classifyVars>>

\* if df.empty: print("No data found in the file."); return
CheckEmpty ==
    /\ script = "analyze" /\ pc = "parsed"
    /\ IF data = <<>>
       THEN /\ pc' = "done"
            /\ report' = "nodata"
       ELSE /\ pc' = "summary"
            /\ UNCHANGED report
    /\ UNCHANGED <<script, keyState, fileExists, pageInput, line, nread, data,
                   requests, written, csv, classifyVars>>

\* print_summary_statistics(df), or an exception in it
PrintSummary ==
    /\ script = "analyze" /\ pc = "summary"
    /\ \/ /\ pc' = "charts"
          /\ UNCHANGED report
       \/ /\ pc' = "done"
          /\ report' = "processing"
    /\ UNCHANGED <<script, keyState, fileExists, pageInput, line, nread, data,
                   requests, written, csv, classifyVars>>

\* create_charts(df), or an exception in it
CreateCharts ==
    /\ script = "analyze" /\ pc = "charts"
    /\ \/ /\ pc' = "save"
          /\ UNCHANGED report
       \/ /\ pc' = "done"
          /\ report' = "processing"
    /\ UNCHANGED <<script, keyState, fileExists, pageInput, line, nread, data,
                   requests, written, csv, classifyVars>>

\* df.to_csv("voting_analysis.csv", index=False, encoding='utf-8')
SaveCsv ==
    /\ script = "analyze" /\ pc = "save"
    /\ csv' = to_csv(data)
    /\ written' = written \cup {"voting_analysis.csv"}
    /\ report' = "saved"
    /\ pc' = "done"
    /\ UNCHANGED <<script, keyState, fileExists, pageInput, line, nread, data,
                   requests, classifyVars>>

(***************************************************************************)
(* congreso_test.py: analyze_file and the module-level try/except.  Every  *)
(* exception is caught by `except Exception`, which prints the error.      *)
(***************************************************************************)
\* load_dotenv(); os.getenv; `if not ANTHROPIC_API_KEY: raise ValueError`;
\* otherwise the client object is built (no request is sent by that).
LoadKey ==
    /\ script = "extract" /\ pc = "start"
    /\ IF KeyMissing(keyState)
       THEN /\ pc' = "done"
            /\ report' = "error"
       ELSE /\ pc' = "fileinfo"
            /\ UNCHANGED report
    /\ UNCHANGED <<script, keyState, fileExists, pageInput, line, nread, data,
                   requests, written, csv, classifyVars>>

\* get_file_info: raises FileNotFoundError when the path does not exist.
GetFileInfo ==
    /\ script = "extract" /\ pc = "fileinfo"
    /\ IF fileExists
       THEN /\ pc' = "upload"
            /\ UNCHANGED report
       ELSE /\ pc' = "done"
            /\ report' = "error"
    /\ UNCHANGED <<script, keyState, fileExists, pageInput, line, nread, data,
                   requests, written, csv, classifyVars>>

\* client.beta.files.upload(...): a request, which succeeds or raises.
UploadFile ==
    /\ script = "extract" /\ pc = "upload"
    /\ requests' = requests + 1
    /\ \/ /\ pc' = "message"
          /\ UNCHANGED report
       \/ /\ pc' = "done"
          /\ report' = "error"
    /\ UNCHANGED <<script, keyState, fileExists, pageInput, line, nread, data,
                   written, csv, classifyVars>>

\* client.beta.messages.create(...): a request, which succeeds or raises.
CreateMessage ==
    /\ script = "extract" /\ pc = "message"
    /\ requests' = requests + 1
    /\ \/ /\ pc' = "write"
          /\ UNCHANGED report
       \/ /\ pc' = "done"
          /\ report' = "error"
    /\ UNCHANGED <<script, keyState, fileExists, pageInput, line, nread, data,
                   written, csv, classifyVars>>

\* the text blocks are written to resultado_votes.txt
WriteResult ==
    /\ script = "extract" /\ pc = "write"
    /\ written' = written \cup {"resultado_votes.txt"}
    /\ report' = "saved"
    /\ pc' = "done"
    /\ UNCHANGED <<script, keyState, fileExists, pageInput, line, nread, data,
                   requests, csv, classifyVars>>

(***************************************************************************)
(* summarize_pdf.py: the __main__ block.  Nothing catches exceptions here: *)
(* an exception ends the process with a traceback ("crash").               *)
(***************************************************************************)
\* `if not api_key: print(...); sys.exit(1)`
CheckKey ==
    /\ script = "summarize" /\ pc = "start"
    /\ IF KeyMissing(keyState)
       THEN /\ pc' = "done"
            /\ report' = "error"
       ELSE /\ pc' = "askfile"
            /\ UNCHANGED report
    /\ UNCHANGED <<script, keyState, fileExists, pageInput, line, nread, data,
                   requests, written, csv, classifyVars>>

\* input(...) of the path; `if not os.path.exists(pdf_path)`: print, exit(1)
AskFile ==
    /\ script = "summarize" /\ pc = "askfile"
    /\ IF fileExists
       THEN /\ pc' = "askpage"
            /\ UNCHANGED report
       ELSE /\ pc' = "done"
            /\ report' = "error"
    /\ UNCHANGED <<script, keyState, fileExists, pageInput, line, nread, data,
                   requests, written, csv, classifyVars>>

\* page_number = int(page_input) if page_input else None; the prompt choice
AskPage ==
    /\ script = "summarize" /\ pc = "askpage"
    /\ IF pageInput = "garbage"
       THEN /\ pc' = "done"
            /\ report' = "crash"
       ELSE /\ pc' = "summarize"
            /\ UNCHANGED report
    /\ UNCHANGED <<script, keyState, fileExists, pageInput, line, nread, data,
                   requests, written, csv, classifyVars>>

\* summarize_pdf(...): client.messages.create, then the result is printed
SummarizePdf ==
    /\ script = "summarize" /\ pc = "summarize"
    /\ requests' = requests + 1
    /\ pc' = "done"
    /\ \/ report' = "printed"
       \/ report' = "crash"
    /\ UNCHANGED <<script, keyState, fileExists, pageInput, line, nread, data,
                   written, csv, classifyVars>>

Next ==
    \/ OpenVotes
    \/ ReadLine
    \/ EndOfFile
    \/ CheckEmpty
    \/ PrintSummary
    \/ CreateCharts
    \/ SaveCsv
    \/ LoadKey
    \/ GetFileInfo
    \/ UploadFile
    \/ CreateMessage
    \/ WriteResult
    \/ CheckKey
    \/ AskFile
    \/ AskPage
    \/ SummarizePdf

Spec == Init /\ [][Next]_vars

\* The scripts are sequential programs: a run that can take a step takes it.
SpecFair == Spec /\ WF_vars(Next)

(***************************************************************************)
(* categorize_result on its own: the classifier applied to a token and to  *)
(* a second token, both drawn from case and edge-whitespace forms of the   *)
(* table entries and of tokens close to them.                              *)
(***************************************************************************)
BaseTokens ==
    { SI, SI_PLUS, NO, NO_MINUS, ABST, ABSTENCION,
      <<"L", "P">>, <<"A", "U", "S">>,
      <<"S", "I", " ", "+", "+">>, <<"N", "O", " ", "-", "-">>,
      <<"S", "I", "+", "+", "+">>, <<"A", "B", "S">>, <<>> }

Capitalize(s) ==
    [i \in 1..Len(s) |-> IF i = 1 THEN UpperChar(s[i]) ELSE LowerChar(s[i])]

CaseForms(b) == { b, lower(b), Capitalize(b) }

Pad(k) == [i \in 1..k |-> IF i % 2 = 1 THEN " " ELSE "\t"]

Forms(b) ==
    { Pad(l) \o c \o Pad(r) : c \in CaseForms(b), l \in 0..MaxPad, r \in 0..MaxPad }

TokenPool == UNION { Forms(b) : b \in BaseTokens }

InitClassify ==
    /\ script = "classify"
    /\ pc = "done"
    /\ keyState = "unset"
    /\ fileExists = FALSE
    /\ pageInput = "empty"
    /\ line = NoLine
    /\ nread = 0
    /\ data = <<>>
    /\ report = "none"
    /\ requests = 0
    /\ written = {}
    /\ csv = <<>>
    /\ token \in TokenPool
    /\ variant \in TokenPool
    /\ catToken = Unclassified
    /\ catVariant = Unclassified

Classify ==
    /\ script = "classify"
    /\ catToken = Unclassified
    /\ catToken' = categorize_result(token)
    /\ catVariant' = categorize_result(variant)
    /\ UNCHANGED <<token, variant, progVars>>

NextClassify == Classify

SpecClassify == InitClassify /\ [][NextClassify]_vars

(***************************************************************************)
(* Properties of read_voting_data, checked on the iterations of its loop.  *)
(* A step of the loop is a step from pc = "read" that increases nread; the *)
(* line it processed is line'.                                             *)
(***************************************************************************)
LoopStep == pc = "read" /\ nread' = nread + 1

\* The trimmed line starts with '[' and ends with ']'.
Delimited(l) ==
    LET s == strip(l) IN s # <<>> /\ s[1] = "[" /\ s[Len(s)] = "]"

\* The tokens between the brackets, untrimmed.
Tokens(l) == LET s == strip(l) IN split(SubSeq(s, 2, Len(s) - 1), ",")

WellFormed(l) == Delimited(l) /\ Len(Tokens(l)) >= 3

\* Tokens i .. n-1, trimmed, joined with ", ".
RECURSIVE JoinMiddle(_, _)
JoinMiddle(toks, i) ==
    IF i >= Len(toks) - 1 THEN strip(toks[i])
    ELSE strip(toks[i]) \o <<",", " ">> \o JoinMiddle(toks, i + 1)

\* C1: a bracket-delimited line with n >= 3 tokens adds exactly one record:
\* team is the trimmed first token, name the trimmed tokens 2..n-1 joined
\* with ", " (for [G, N1, N2, T]: "N1, N2"), result the category of the
\* last token alone.
C1_WellFormedLineYieldsOneRecord ==
    [][ (LoopStep /\ WellFormed(line')) =>
          LET toks == Tokens(line')
              n    == Len(toks)
          IN  /\ Len(data') = Len(data) + 1
              /\ SubSeq(data', 1, Len(data)) = data
              /\ data'[Len(data')].team = strip(toks[1])
              /\ data'[Len(data')].name = JoinMiddle(toks, 2)
              /\ n = 4 => data'[Len(data')].name
                            = strip(toks[2]) \o <<",", " ">> \o strip(toks[3])
              /\ data'[Len(data')].result = categorize_result(toks[n]) ]_vars

\* A line [ NA,7 ,7 ,SI +++] has been read and gave NA / "7, 7" / yes.
C1_Witness ==
    /\ pc = "read"
    /\ line = <<"[", " ", "N", "A", ",", "7", " ", ",", "7", " ", ",",
                "S", "I", " ", "+", "+", "+", "]">>
    /\ Len(data) = 1
    /\ data[1] = [team |-> <<"N", "A">>, name |-> <<"7", ",", " ", "7">>, result |-> yes]

(***************************************************************************)
(* Properties of categorize_result (SpecClassify).                         *)
(***************************************************************************)
Table == {SI, SI_PLUS, NO, NO_MINUS, ABST, ABSTENCION}

NearMisses == { <<"L", "P">>, <<"A", "U", "S">>,
                <<"S", "I", " ", "+", "+">>, <<"N", "O", " ", "-", "-">> }

\* C2: the category is decided by exact match of the uppercased, trimmed
\* token: yes iff "SI" or "SI +++", no iff "NO" or "NO ---", abs iff "ABST"
\* or "ABSTENCIÓN", others for every other token; "LP", "aus", "SI ++" and
\* "NO --" are others.
C2_ExactMatchTable ==
    catToken # Unclassified =>
        LET u == upper(strip(token))
        IN  /\ (catToken = yes) <=> (u = SI \/ u = SI_PLUS)
            /\ (catToken = no) <=> (u = NO \/ u = NO_MINUS)
            /\ (catToken = abs) <=> (u = ABST \/ u = ABSTENCION)
            /\ (catToken = others) <=> (u \notin Table)
            /\ (u \in NearMisses) => (catToken = others)

\* The token "si ++" (a prefix of a table entry, in lower case and padded)
\* has been classified as others.
C2_Witness ==
    /\ token = <<" ", "s", "i", " ", "+", "+", " ">>
    /\ catToken = others

\* Two tokens that differ only in letter case and in whitespace at the ends.
SameUpToCaseAndEdges(a, b) == lower(strip(a)) = lower(strip(b))

\* C8: a token and any variant of it that differs only in letter case or
\* in whitespace at its two ends get the same category.
C8_CaseAndEdgeInsensitive ==
    (catToken # Unclassified /\ SameUpToCaseAndEdges(token, variant))
        => catToken = catVariant

\* " si +++ " and "SI +++" have both been classified, as yes.
C8_Witness ==
    /\ token = <<" ", "s", "i", " ", "+", "+", "+", " ">>
    /\ variant = SI_PLUS
    /\ catToken = yes
    /\ catVariant = yes

(***************************************************************************)
(* Further properties of read_voting_data (Spec).                          *)
(***************************************************************************)
\* C3: every record has a non-empty team and a non-empty name, also for
\* lines with empty tokens such as "[,,SI]" or "[ , , ]".
C3_FieldsNonEmpty ==
    \A i \in 1..Len(data) : data[i].team # <<>> /\ data[i].name # <<>>

\* C5: the parser never raises: from inside the loop every step either
\* reads another line or returns, nothing is reported, and a step adds at
\* most one record and leaves the earlier ones alone.
C5_ParsingNeverRaises ==
    [][ (pc = "read") =>
          /\ pc' \in {"read", "parsed"}
          /\ report' = report
          /\ Len(data') \in {Len(data), Len(data) + 1}
          /\ SubSeq(data', 1, Len(data)) = data ]_vars

\* The parser has returned after two lines, one of them omitted, with one
\* record and nothing reported.
C5_Witness ==
    /\ pc = "parsed"
    /\ nread = 2
    /\ Len(data) = 1
    /\ report = "none"

\* C6: a line whose trimmed form does not both start with '[' and end with
\* ']' (the empty line included) adds no record, reports nothing and leaves
\* the records of the other lines as they are.
C6_UndelimitedLineSkipped ==
    [][ (LoopStep /\ ~Delimited(line')) =>
          /\ data' = data
          /\ pc' = "read"
          /\ report' = report ]_vars

\* A line that opens a bracket and never closes it has been read after a
\* line that gave a record; the record is still the only one.
C6_Witness ==
    /\ pc = "read"
    /\ nread = 2
    /\ Len(data) = 1
    /\ ~Delimited(line)
    /\ startswith(strip(line), "[")

\* C7: a bracket-delimited line with fewer than 3 tokens ("[]", "[A]",
\* "[A, SI]") adds no record and reports nothing.
C7_ShortLineSkipped ==
    [][ (LoopStep /\ Delimited(line') /\ Len(Tokens(line')) < 3) =>
          /\ data' = data
          /\ pc' = "read"
          /\ report' = report ]_vars

\* The two-token line [ NA,SI +++] has been read and there is no record.
C7_Witness ==
    /\ pc = "read"
    /\ nread = 1
    /\ line = <<"[", " ", "N", "A", ",", "S", "I", " ", "+", "+", "+", "]">>
    /\ data = <<>>
    /\ report = "none"

(***************************************************************************)
(* Reloading voting_analysis.csv.  The repository only writes the file;    *)
(* the reload is the reader's side of the CSV format:                      *)
(*   CsvFields     one line split into fields (quotes removed, doubled     *)
(*                 quotes undone);                                         *)
(*   ReloadAsText  every field kept as text (pandas.read_csv with          *)
(*                 dtype=str, keep_default_na=False; csv.DictReader);      *)
(*   ReloadDefault pandas.read_csv with its defaults: a field that is      *)
(*                 empty or a missing-value marker becomes NaN, and a      *)
(*                 column whose other fields are all numerals becomes      *)
(*                 numeric.                                                *)
(* A reloaded cell is [kind, text] with kind in str, nan, num.             *)
(***************************************************************************)
RECURSIVE ScanFields(_, _, _, _)
ScanFields(s, i, cur, quoted) ==
    IF i > Len(s) THEN <<cur>>
    ELSE IF quoted
         THEN IF s[i] = "\""
              THEN IF i < Len(s) /\ s[i + 1] = "\""
                   THEN ScanFields(s, i + 2, Append(cur, "\""), TRUE)
                   ELSE ScanFields(s, i + 1, cur, FALSE)
              ELSE ScanFields(s, i + 1, Append(cur, s[i]), TRUE)
         ELSE IF s[i] = ","
              THEN <<cur>> \o ScanFields(s, i + 1, <<>>, FALSE)
              ELSE IF s[i] = "\"" /\ cur = <<>>
                   THEN ScanFields(s, i + 1, cur, TRUE)
                   ELSE ScanFields(s, i + 1, Append(cur, s[i]), FALSE)

CsvFields(l) == ScanFields(l, 1, <<>>, FALSE)

\* The rows below the header, each as its sequence of fields.
CsvRows(f) == [i \in 1..(Len(f) - 1) |-> CsvFields(f[i + 1])]

ReloadAsText(f) ==
    LET rows == CsvRows(f)
    IN  [i \in 1..Len(rows) |->
           IF Len(rows[i]) = 3
           THEN [team |-> rows[i][1], name |-> rows[i][2], result |-> rows[i][3]]
           ELSE [fields |-> rows[i]]]

NaMarkers == { <<>>, <<"N", "A">>, <<"N", "a", "N">>, <<"n", "a", "n">>,
               <<"N", "/", "A">>, <<"n", "/", "a">>, <<"N", "U", "L", "L">>,
               <<"n", "u", "l", "l">>, <<"N", "o", "n", "e">>, <<"<", "N", "A", ">">> }

Digits == {"0", "1", "2", "3", "4", "5", "6", "7", "8", "9"}

IsNumeral(t) == t # <<>> /\ \A i \in 1..Len(t) : t[i] \in Digits

Str(t) == [kind |-> "str", text |-> t]

NaN == [kind |-> "nan", text |-> <<>>]

Num(t) == [kind |-> "num", text |-> t]

\* Column c of the rows is inferred numeric when it has a numeral and
\* every field in it is a numeral or missing.
NumericColumn(rows, c) ==
    /\ \E i \in 1..Len(rows) : IsNumeral(rows[i][c])
    /\ \A i \in 1..Len(rows) : IsNumeral(rows[i][c]) \/ rows[i][c] \in NaMarkers

Cell(rows, i, c) ==
    IF rows[i][c] \in NaMarkers THEN NaN
    ELSE IF NumericColumn(rows, c) THEN Num(rows[i][c])
    ELSE Str(rows[i][c])

ReloadDefault(f) ==
    LET rows == CsvRows(f)
    IN  [i \in 1..Len(rows) |->
           IF Len(rows[i]) = 3
           THEN [team |-> Cell(rows, i, 1), name |-> Cell(rows, i, 2),
                 result |-> Cell(rows, i, 3)]
           ELSE [fields |-> rows[i]]]

\* The DataFrame built from the records: every cell is a Python str.
Frame(df) ==
    [i \in 1..Len(df) |->
       [team |-> Str(df[i].team), name |-> Str(df[i].name), result |-> Str(df[i].result)]]

Categories == {yes, no, abs, others}

\* C9: every record has exactly the fields team, name and result with
\* result one of yes, no, abs, others; the written CSV has the header
\* team,name,result and every row of it has exactly three fields, the third
\* one of the four values.
C9_ThreeFieldsFourResults ==
    /\ \A i \in 1..Len(data) :
          /\ DOMAIN data[i] = {"team", "name", "result"}
          /\ data[i].result \in Categories
    /\ (csv # <<>>) =>
          /\ Len(csv) = Len(data) + 1
          /\ CsvFields(csv[1]) = Columns
          /\ \A i \in 2..Len(csv) :
                /\ Len(CsvFields(csv[i])) = 3
                /\ CsvFields(csv[i])[3] \in Categories

\* Two records, an "others" and an "abs", have been parsed and written.
C9_Witness ==
    /\ report = "saved"
    /\ Len(data) = 2
    /\ data[1].result = others
    /\ data[2].result = abs
    /\ Len(csv) = 3

(***************************************************************************)
(* Environment and configuration errors (Spec).                            *)
(***************************************************************************)
\* The credential is absent (unset, or set to nothing) for a script that
\* reads it, or the script's input file is missing.
EnvError ==
    \/ UsesKey(script) /\ keyState \in {"unset", "empty"}
    \/ ~fileExists

C11_OneRecordPerAcceptedLineInOrder ==
    [][ /\ Len(data') >= Len(data)
        /\ SubSeq(data', 1, Len(data)) = data
        /\ Len(data) <= nread
        /\ LoopStep =>
             /\ Len(data') = Len(data) + (IF WellFormed(line') THEN 1 ELSE 0)
             /\ WellFormed(line') =>
                  LET toks == Tokens(line')
                      r    == data'[Len(data')]
                  IN  /\ r.team = strip(toks[1])
                      /\ r.name = JoinMiddle(toks, 2)
                      /\ r.result = categorize_result(toks[Len(toks)])
        /\ ~LoopStep => data' = data ]_vars

\* Two accepted lines have been read; the record of the first (team NA) is
\* first and the record of the line just read (empty team) is second.
C11_Witness ==
    /\ pc = "read"
    /\ nread = 2
    /\ Len(data) = 2
    /\ data[1].team = <<"N", "A">>
    /\ data[2].team = <<>>
    /\ WellFormed(line)
    /\ strip(Tokens(line)[1]) = <<>>

(***************************************************************************)
(* The order of the steps of one analysis run (SpecFair).                  *)
(***************************************************************************)
\* The moves of pc that follow the order parse, summary, charts, CSV.
RunOrder ==
    { <<"start", "read">>, <<"start", "done">>, <<"read", "parsed">>,
      <<"parsed", "summary">>, <<"parsed", "done">>,
      <<"summary", "charts">>, <<"summary", "done">>,
      <<"charts", "save">>, <<"charts", "done">>, <<"save", "done">> }

\* C12: an analysis run goes through parse, summary, charts and the CSV
\* write in that order; the CSV is written only from the step after the
\* charts, with at least one record and no exception reported by the
\* summary or the charts; with zero records the run reports that no data
\* was found and ends without summary, charts or CSV; every run ends.
C12_RunOrderAndTermination ==
    /\ [][ (script = "analyze") =>
             /\ (pc' # pc) => (<<pc, pc'>> \in RunOrder)
             /\ (written' # written \/ csv' # csv) =>
                   (pc = "save" /\ data # <<>> /\ report = "none")
             /\ (pc' = "save") => (data # <<>> /\ report' = "none")
             /\ (pc = "parsed" /\ data = <<>>) =>
                   (pc' = "done" /\ report' = "nodata" /\ written' = written) ]_vars
    /\ []( (script = "analyze" /\ report = "nodata") =>
             (pc = "done" /\ data = <<>> /\ written = {} /\ csv = <<>>) )
    /\ []( (script = "analyze" /\ "voting_analysis.csv" \in written) =>
             (pc = "done" /\ data # <<>> /\ report = "saved") )
    /\ <>(pc = "done")

\* A run has ended after parse, summary, charts and the CSV write, with one
\* record in the file.
C12_Witness ==
    /\ script = "analyze"
    /\ pc = "done"
    /\ report = "saved"
    /\ Len(data) = 1
    /\ written = {"voting_analysis.csv"}
    /\ Len(csv) = 2
====
